---- MODULE Spec2Model ----
(***************************************************************************)
(* Batch-inference workflow of                                             *)
(* batch-inference/batch-inference-transcript-summarization.ipynb:         *)
(* prepare_model_inputs (collector), write_jsonl + upload_to_s3 +          *)
(* create_model_invocation_job (submitter), the status polling loop        *)
(* (poller) and the output retrieval cell (retriever).  The notebook is a  *)
(* linear script: the cells run top to bottom in a fresh kernel and a cell *)
(* that raises stops the run.  Object storage, the wall clock and the job  *)
(* service are the environment: their answers are inputs of the actions.   *)
(***************************************************************************)
EXTENDS Integers, Sequences, FiniteSets, TLC

(* ------------------------------ bounds -------------------------------- *)
\* Most objects stored under the raw-data prefix.
MaxObjects == 3
\* Most keys one list_objects_v2 response returns (1000 in the service,
\* scaled down; MaxObjects exceeds it so that a truncated listing occurs).
PageSize == 2
\* Seconds the wall clock may advance during one run.
MaxClock == 2
\* Most status queries the model follows.
MaxPolls == 3
\* Longest source text of the serialization specification.
MaxTextLen == 2
MaxDirFiles == 2
\* Wall clock (epoch seconds) when the run starts.
ClockStart == 1700000000

(* ------------------------- characters and text ------------------------ *)
\* One element per character; LF, QUOTE and BSLASH are the characters
\* a JSON string must escape.
LF == "LF"
QUOTE == "QUOTE"
BSLASH == "BSLASH"
Chars == {"n", LF, QUOTE, BSLASH}

RECURSIVE SeqsUpTo(_, _)
SeqsUpTo(S, n) ==
    IF n = 0 THEN {<<>>}
    ELSE LET shorter == SeqsUpTo(S, n - 1)
         IN  shorter \cup {Append(s, c) : s \in {t \in shorter : Len(t) = n - 1}, c \in S}

\* Source texts of the serialization specification.
Texts == SeqsUpTo(Chars, MaxTextLen)
\* The text stored under the i-th key of the bucket in the workflow
\* specification: the texts differ from key to key, and hold the characters
\* that JSON escapes.
SourceText(i) == [j \in 1..i |-> CASE j % 4 = 1 -> "n" [] j % 4 = 2 -> LF
                                   [] j % 4 = 3 -> QUOTE [] OTHER -> BSLASH]

(* --------------------------- str(int(...)) ---------------------------- *)
DigitChar(d) == CASE d = 0 -> "0" [] d = 1 -> "1" [] d = 2 -> "2" [] d = 3 -> "3"
                  [] d = 4 -> "4" [] d = 5 -> "5" [] d = 6 -> "6" [] d = 7 -> "7"
                  [] d = 8 -> "8" [] d = 9 -> "9"
Digits == {"0", "1", "2", "3", "4", "5", "6", "7", "8", "9"}
DigitVal(c) == CHOOSE d \in 0..9 : DigitChar(d) = c

RECURSIVE IntToStr(_)
IntToStr(n) == IF n < 10 THEN <<DigitChar(n)>>
               ELSE Append(IntToStr(n \div 10), DigitChar(n % 10))

RECURSIVE StrToInt(_)
StrToInt(s) == IF Len(s) = 1 THEN DigitVal(s[1])
               ELSE 10 * StrToInt(SubSeq(s, 1, Len(s) - 1)) + DigitVal(s[Len(s)])

(* ------------------------------ json.dumps ---------------------------- *)
\* json.dumps of a str: the characters between quotes, with the quote, the
\* backslash and the newline escaped.
\* A faulty variant of EscapeChar: the newline is written as it is.
EscapeCharKeepsNewline(c) == CASE c = QUOTE -> <<BSLASH, QUOTE>>
                               [] c = BSLASH -> <<BSLASH, BSLASH>>
                               [] OTHER -> <<c>>

EscapeChar(c) == CASE c = QUOTE -> <<BSLASH, QUOTE>>
                   [] c = BSLASH -> <<BSLASH, BSLASH>>
                   [] c = LF -> <<BSLASH, "n">>
                   [] OTHER -> <<c>>

RECURSIVE Escape(_)
Escape(s) == IF s = <<>> THEN <<>> ELSE EscapeChar(Head(s)) \o Escape(Tail(s))

DumpsStr(s) == <<QUOTE>> \o Escape(s) \o <<QUOTE>>

\* A dict key followed by the ': ' separator; "," stands for ', '.
Key(k) == <<QUOTE, k, QUOTE, ":">>

\* json.dumps of the request body built by prepare_model_inputs (keys in
\* insertion order).
DumpsBody(b) ==
    <<"{">> \o Key("anthropic_version") \o DumpsStr(b.anthropic_version)
    \o <<",">> \o Key("messages") \o <<"[", "{">>
    \o Key("role") \o DumpsStr(b.messages[1].role)
    \o <<",">> \o Key("content") \o <<"[", "{">>
    \o Key("type") \o DumpsStr(b.messages[1].content[1].type)
    \o <<",">> \o Key("text") \o DumpsStr(b.messages[1].content[1].text)
    \o <<"}", "]", "}", "]">>
    \o <<",">> \o Key("max_tokens") \o IntToStr(b.max_tokens)
    \o <<",">> \o Key("temperature") \o b.temperature
    \o <<",">> \o Key("top_p") \o b.top_p
    \o <<",">> \o Key("top_k") \o IntToStr(b.top_k)
    \o <<"}">>

\* json.dumps(item) of one Task Request Record.
json_dumps(item) ==
    <<"{">> \o Key("recordId") \o DumpsStr(item.recordId)
    \o <<",">> \o Key("modelInput") \o DumpsBody(item.modelInput)
    \o <<"}">>

(* ------------------------------ json.loads ---------------------------- *)
ParseFail == [ok |-> FALSE, val |-> <<>>, next |-> 0]

\* The characters of a JSON string up to its closing quote, unescaped; a raw
\* newline or an unknown escape is a JSONDecodeError.
RECURSIVE ScanStr(_, _, _)
ScanStr(s, p, acc) ==
    IF p > Len(s) THEN ParseFail
    ELSE IF s[p] = QUOTE THEN [ok |-> TRUE, val |-> acc, next |-> p + 1]
    ELSE IF s[p] = LF THEN ParseFail
    ELSE IF s[p] = BSLASH THEN
        IF p + 1 > Len(s) THEN ParseFail
        ELSE IF s[p + 1] = "n" THEN ScanStr(s, p + 2, Append(acc, LF))
        ELSE IF s[p + 1] \in {QUOTE, BSLASH} THEN ScanStr(s, p + 2, Append(acc, s[p + 1]))
        ELSE ParseFail
    ELSE ScanStr(s, p + 1, Append(acc, s[p]))

ParseStr(s, p) ==
    IF p = 0 \/ p > Len(s) THEN ParseFail
    ELSE IF s[p] # QUOTE THEN ParseFail
    ELSE ScanStr(s, p + 1, <<>>)

\* The longest run of number characters from p on.
RECURSIVE ScanNum(_, _, _)
ScanNum(s, p, acc) ==
    IF p <= Len(s) /\ s[p] \in Digits \cup {"."} THEN ScanNum(s, p + 1, Append(acc, s[p]))
    ELSE IF acc = <<>> THEN ParseFail
    ELSE [ok |-> TRUE, val |-> acc, next |-> p]

ParseNum(s, p) == IF p = 0 THEN ParseFail ELSE ScanNum(s, p, <<>>)

\* The position after toks when s holds toks at p, 0 otherwise.
Expect(s, p, toks) ==
    IF p # 0 /\ p + Len(toks) - 1 <= Len(s) /\ SubSeq(s, p, p + Len(toks) - 1) = toks
    THEN p + Len(toks) ELSE 0

\* json.loads of one line of the request file: [ok, val].
json_loads(line) ==
    LET p1 == Expect(line, 1, <<"{">> \o Key("recordId"))
        id == ParseStr(line, p1)
        p2 == Expect(line, id.next,
                     <<",">> \o Key("modelInput") \o <<"{">> \o Key("anthropic_version"))
        ver == ParseStr(line, p2)
        p3 == Expect(line, ver.next, <<",">> \o Key("messages") \o <<"[", "{">> \o Key("role"))
        role == ParseStr(line, p3)
        p4 == Expect(line, role.next, <<",">> \o Key("content") \o <<"[", "{">> \o Key("type"))
        type == ParseStr(line, p4)
        p5 == Expect(line, type.next, <<",">> \o Key("text"))
        text == ParseStr(line, p5)
        p6 == Expect(line, text.next, <<"}", "]", "}", "]", ",">> \o Key("max_tokens"))
        mt == ParseNum(line, p6)
        p7 == Expect(line, mt.next, <<",">> \o Key("temperature"))
        temp == ParseNum(line, p7)
        p8 == Expect(line, temp.next, <<",">> \o Key("top_p"))
        topp == ParseNum(line, p8)
        p9 == Expect(line, topp.next, <<",">> \o Key("top_k"))
        topk == ParseNum(line, p9)
        pend == Expect(line, topk.next, <<"}", "}">>)
    IN  IF topk.ok /\ pend = Len(line) + 1
        THEN [ok |-> TRUE,
              val |-> [recordId |-> id.val,
                       modelInput |->
                         [anthropic_version |-> ver.val,
                          messages |-> <<[role |-> role.val,
                                          content |-> <<[type |-> type.val,
                                                         text |-> text.val]>>]>>,
                          max_tokens |-> StrToInt(mt.val),
                          temperature |-> temp.val,
                          top_p |-> topp.val,
                          top_k |-> StrToInt(topk.val)]]]
        ELSE [ok |-> FALSE, val |-> <<>>]

\* str.splitlines of a file's text: the runs of characters between newlines
\* (a newline that ends the text opens no further line).
RECURSIVE LinesFrom(_, _)
LinesFrom(s, start) ==
    IF start > Len(s) THEN <<>>
    ELSE LET breaks == {i \in start..Len(s) : s[i] = LF}
         IN  IF breaks = {} THEN <<SubSeq(s, start, Len(s))>>
             ELSE LET e == CHOOSE i \in breaks : \A j \in breaks : i <= j
                  IN  <<SubSeq(s, start, e - 1)>> \o LinesFrom(s, e + 1)

splitlines(s) == LinesFrom(s, 1)

(* ------------------------- notebook configuration --------------------- *)
bucket_name == "bucket"
raw_data_prefix == "raw"
output_prefix == "out"
model_input_summary_prefix == "input"

(* ------------------------------- state -------------------------------- *)
VARIABLES
    pc,                 \* the step of the notebook that runs next
    exc,                \* the exception that stopped the run, "none" if none
    bound,              \* names bound in the kernel's namespace
    now,                \* wall clock, whole seconds since the epoch
    bucket,             \* objects stored under raw_data_prefix, in key order
    contents,           \* prepare_model_inputs: response['Contents'] still to process
    model_inputs,       \* prepare_model_inputs: its local list
    model_input_jsonl,  \* the batch prepare_model_inputs returned
    filename,           \* name of the request file
    local_file,         \* text of the local request file
    s3_objects,         \* objects written by upload_to_s3: [key, body]
    upload_result,      \* what upload_to_s3 returned: "True", "False", "unset"
    jobs,               \* create_model_invocation_job calls that succeeded
    status,             \* the poller's status variable
    queries,            \* get_model_invocation_job calls issued
    sleeps,             \* time.sleep(300) calls made
    jobArn,             \* the poller's jobArn variable
    job_id,             \* the poller's job_id variable
    calls,              \* the calls made to storage, the job service and time.sleep
    manifest,           \* manifest.json.out written by the job service
    out_object,         \* get_object answer for the output key: [key, present, lines]
    output_data,        \* the retriever's list of Output Records
    output_entry,       \* the retriever's last Output Record
    retrieval,          \* "none", "success" (line 500) or "error" (line 502)
    fs,                 \* the local files and directories upload_to_s3 looks at
    path,               \* upload_to_s3: its path argument
    bucket_subfolder,   \* upload_to_s3: its bucket_subfolder argument, None if not given
    todo,               \* upload_to_s3: files of the walk not yet visited
    uploads,            \* upload_to_s3: its s3.upload_file calls: [file_path, object_name, ok]
    returned            \* upload_to_s3: what it returned, "unset" while it runs

vars == <<pc, exc, bound, now, bucket, contents, model_inputs, model_input_jsonl,
          filename, local_file, s3_objects, upload_result, jobs, status, queries,
          sleeps, jobArn, job_id, calls, manifest, out_object, output_data, output_entry,
          retrieval, fs, path, bucket_subfolder, todo, uploads, returned>>

collector_vars == <<contents, model_inputs, model_input_jsonl>>
submitter_vars == <<filename, local_file, s3_objects, upload_result, jobs>>
poller_vars == <<status, queries, sleeps, jobArn, job_id>>
retriever_vars == <<manifest, out_object, output_data, output_entry, retrieval>>
upload_vars == <<fs, path, bucket_subfolder, todo, uploads, returned>>

ClockEnd == ClockStart + MaxClock

\* One call: the interface called, its argument and whether it returned
\* (TRUE) or raised (FALSE).
Call(api, arg, ok) == [api |-> api, arg |-> arg, ok |-> ok]

\* str.split(sep) from position start on: the runs between separators.
RECURSIVE SplitOn(_, _, _)
SplitOn(s, sep, start) ==
    LET breaks == {i \in start..Len(s) : s[i] = sep}
    IN  IF breaks = {} THEN <<SubSeq(s, start, Len(s))>>
        ELSE LET e == CHOOSE i \in breaks : \A j \in breaks : i <= j
             IN  <<SubSeq(s, start, e - 1)>> \o SplitOn(s, sep, e + 1)

split(s, sep) == SplitOn(s, sep, 1)

\* obj['Key'] of the i-th object under raw_data_prefix.
ObjectKey(i) == <<raw_data_prefix, "/", "transcript">> \o IntToStr(i)

(* ------------------------- prepare_model_inputs ----------------------- *)
\* The keys of response.get('Contents', []): one list_objects_v2 call
\* returns at most PageSize keys and the function makes one call.
list_objects_v2(objs) ==
    [i \in 1..(IF Len(objs) < PageSize THEN Len(objs) ELSE PageSize) |-> i]

\* str(int(datetime.now().timestamp()))
record_id(t) == IntToStr(t)

\* The f-string of lines 150-151: the instruction, which spans two source
\* lines, followed by the file's content.
input_text(file_content) == <<"Write an accurate ...", LF, "... original text: ">> \o file_content

request_body(file_content) ==
    [anthropic_version |-> <<"bedrock-2023-05-31">>,
     messages |-> <<[role |-> <<"user">>,
                     content |-> <<[type |-> <<"text">>,
                                    text |-> input_text(file_content)]>>]>>,
     max_tokens |-> 300,
     temperature |-> <<"0", ".", "1">>,
     top_p |-> <<"0", ".", "1">>,
     top_k |-> 100]

model_input(t, file_content) ==
    [recordId |-> record_id(t), modelInput |-> request_body(file_content)]

\* Lines 132-135: the listing call; a failed call raises out of the cell.
ListObjects ==
    /\ pc = "prepare"
    /\ \E ok \in BOOLEAN :
         IF ok
         THEN /\ contents' = list_objects_v2(bucket)
              /\ model_inputs' = <<>>
              /\ pc' = "prepare_loop"
              /\ exc' = exc
              /\ calls' = Append(calls, Call("list_objects_v2", <<raw_data_prefix>>, TRUE))
         ELSE /\ pc' = "raised"
              /\ exc' = "list_objects_v2"
              /\ calls' = Append(calls, Call("list_objects_v2", <<raw_data_prefix>>, FALSE))
              /\ UNCHANGED <<contents, model_inputs>>
    /\ UNCHANGED <<bound, now, bucket, model_input_jsonl, submitter_vars, poller_vars,
                   retriever_vars, upload_vars>>

\* A faulty variant of ReadFails: the error is noted and the loop goes on to the next
\* object, so that a batch without the unread object is returned.
ReadFailsSkipsObject ==
    /\ exc' = "get_object"
    /\ calls' = Append(calls, Call("get_object", ObjectKey(Head(contents)), FALSE))
    /\ contents' = Tail(contents)
    /\ UNCHANGED <<pc, now, model_inputs>>

\* A faulty variant of ReadFails: a failed read is issued once more before
\* the exception is let out.
ReadFailsRetriesOnce ==
    /\ calls' = Append(calls, Call("get_object", ObjectKey(Head(contents)), FALSE))
    /\ IF calls # <<>> /\ ~calls[Len(calls)].ok
       THEN pc' = "raised" /\ exc' = "get_object"
       ELSE UNCHANGED <<pc, exc>>
    /\ UNCHANGED <<now, contents, model_inputs>>

\* Lines 143-144 failing: the exception leaves the function and the cell.
ReadFails ==
    /\ pc' = "raised"
    /\ exc' = "get_object"
    /\ calls' = Append(calls, Call("get_object", ObjectKey(Head(contents)), FALSE))
    /\ UNCHANGED <<now, contents, model_inputs>>

\* Lines 138-174, one iteration: read the object, take the record id from
\* the clock (which may have advanced), append the record.
ReadObject ==
    /\ pc = "prepare_loop"
    /\ contents # <<>>
    /\ \/ \E t \in now..ClockEnd :
            /\ now' = t
            /\ model_inputs' = Append(model_inputs,
                                      model_input(t, bucket[Head(contents)].content))
            /\ contents' = Tail(contents)
            /\ calls' = Append(calls, Call("get_object", ObjectKey(Head(contents)), TRUE))
            /\ UNCHANGED <<pc, exc>>
       \/ ReadFails
    /\ UNCHANGED <<bound, bucket, model_input_jsonl, submitter_vars, poller_vars,
                   retriever_vars, upload_vars>>

\* Line 176 and line 310: the list is returned and bound.
ReturnInputs ==
    /\ pc = "prepare_loop"
    /\ contents = <<>>
    /\ model_input_jsonl' = model_inputs
    /\ bound' = bound \cup {"model_input_jsonl"}
    /\ pc' = "write"
    /\ UNCHANGED <<exc, now, calls, bucket, contents, model_inputs, submitter_vars, poller_vars,
                   retriever_vars, upload_vars>>

(* ------------------------------ submitter ----------------------------- *)
\* A faulty variant of write_jsonl: the list is dumped as one JSON array
\* on one line.
write_jsonl_as_array(data) ==
    <<"[">> \o (IF data = <<>> THEN <<>> ELSE json_dumps(data[1])) \o <<"]", LF>>

\* A faulty variant of write_jsonl: the items are written last to first.
RECURSIVE write_jsonl_reversed(_)
write_jsonl_reversed(data) ==
    IF data = <<>> THEN <<>>
    ELSE write_jsonl_reversed(Tail(data)) \o json_dumps(Head(data)) \o <<LF>>

\* Lines 295-299: every item as one JSON string followed by a newline.
RECURSIVE write_jsonl(_)
write_jsonl(data) ==
    IF data = <<>> THEN <<>>
    ELSE json_dumps(Head(data)) \o <<LF>> \o write_jsonl(Tail(data))

\* Line 321: 'batch-' + str(int(datetime.now().timestamp())) + '.jsonl'
batch_filename(t) == <<"batch-">> \o IntToStr(t) \o <<".jsonl">>

\* Lines 320-322: name the request file after the clock and write it.
WriteFile ==
    /\ pc = "write"
    /\ \E t \in now..ClockEnd :
         /\ now' = t
         /\ filename' = batch_filename(t)
    /\ local_file' = write_jsonl(model_input_jsonl)
    /\ bound' = bound \cup {"filename"}
    /\ pc' = "upload"
    /\ calls' = Append(calls, Call("write_jsonl", filename', TRUE))
    /\ UNCHANGED <<exc, bucket, collector_vars, s3_objects, upload_result, jobs,
                   poller_vars, retriever_vars, upload_vars>>

\* os.path.basename(path): what follows the last '/'.
basename(p) == LET parts == split(p, "/") IN parts[Len(parts)]

\* Line 333: path=f"./{filename}"
upload_path == <<".", "/">> \o filename

\* A faulty variant of object_name: the subfolder is left out of the key.
object_name_without_subfolder(subfolder, base) == base

\* bucket_subfolder=None, the default of line 202.
None == "None"

\* Lines 206 and 220: the object name of a file, bare when no subfolder is
\* given and under the subfolder otherwise.
object_name(subfolder, base) ==
    IF subfolder = None THEN base ELSE <<subfolder, "/">> \o base

\* A faulty variant of FileBranchResult: True is returned whatever happened.
FileBranchResultAlwaysTrue(ok) == "True"

\* Lines 207-213: True after s3.upload_file returned, False after it raised.
FileBranchResult(ok) == IF ok THEN "True" ELSE "False"

\* Lines 204-213, called at lines 333-335 with the file just written:
\* upload_file either stores the object and the function returns True, or
\* raises, and the function prints the error and returns False.  The cell
\* drops the returned value.
UploadFile ==
    /\ pc = "upload"
    /\ \E ok \in BOOLEAN :
         LET key == object_name(model_input_summary_prefix, basename(upload_path))
         IN  /\ calls' = Append(calls, Call("upload_file", key, ok))
             /\ IF ok
                THEN s3_objects' = s3_objects \cup {[key |-> key, body |-> local_file]}
                ELSE s3_objects' = s3_objects
             /\ upload_result' = FileBranchResult(ok)
    /\ pc' = "create"
    /\ UNCHANGED <<exc, bound, now, bucket, collector_vars, filename, local_file, jobs,
                   poller_vars, retriever_vars, upload_vars>>

\* Lines 361-371: the input and output locations (bucket and key).
inputDataConfig == [bucket |-> bucket_name,
                    key |-> <<model_input_summary_prefix, "/">> \o filename]
outputDataConfig == [bucket |-> bucket_name,
                     key |-> <<model_input_summary_prefix, "/", output_prefix, "/">>]

\* The ARN the service gives the job it creates: '<...>:model-invocation-job/<id>'.
ServiceJobArn == <<"arn:aws:bedrock:model-invocation-job", "/", "job1">>

\* Lines 399-405: one creation call; a failed call raises out of the cell.
CreateJob ==
    /\ pc = "create"
    /\ \E ok \in BOOLEAN :
         IF ok
         THEN /\ jobs' = Append(jobs, [jobArn |-> ServiceJobArn,
                                       input |-> inputDataConfig,
                                       output |-> outputDataConfig])
              /\ bound' = bound \cup {"response"}
              /\ pc' = "poll_init"
              /\ exc' = exc
              /\ calls' = Append(calls, Call("create_model_invocation_job",
                                             inputDataConfig.key, TRUE))
         ELSE /\ pc' = "raised"
              /\ exc' = "create_model_invocation_job"
              /\ calls' = Append(calls, Call("create_model_invocation_job",
                                             inputDataConfig.key, FALSE))
              /\ UNCHANGED <<jobs, bound>>
    /\ UNCHANGED <<now, bucket, collector_vars, filename, local_file, s3_objects,
                   upload_result, poller_vars, retriever_vars, upload_vars>>

(* -------------------------------- poller ------------------------------ *)
\* The statuses get_model_invocation_job may answer: the four of the job
\* state machine and one more of the service ("Stopped").
Statuses == {"Submitted", "InProgress", "Completed", "Failed", "Stopped"}

\* A faulty variant of WhileCondition: the loop also ends on 'InProgress'.
WhileConditionEndsEarly(st) == st \notin {"Completed", "Failed", "InProgress"}

\* A faulty variant of WhileCondition: the loop gives up after a maximum
\* number of queries.
WhileConditionWithCeiling(st) ==
    st \notin {"Completed", "Failed"} /\ queries < MaxPolls - 1

\* A faulty variant of WhileCondition: 'Stopped' ends the loop too.
WhileConditionEndsOnStopped(st) == st \notin {"Completed", "Failed", "Stopped"}

\* A faulty variant of WhileCondition: only 'Completed' ends the loop.
WhileConditionIgnoresFailed(st) == st # "Completed"

\* Line 431: the loop's condition.
WhileCondition(st) == st \notin {"Completed", "Failed"}

\* Lines 425-430: the job handle is read from the creation response, the
\* job id is what follows its '/', and status starts as ''.
PollInit ==
    /\ pc = "poll_init"
    /\ jobArn' = jobs[Len(jobs)].jobArn
    /\ job_id' = split(jobArn', "/")[2]
    /\ status' = ""
    /\ bound' = bound \cup {"jobArn", "job_id"}
    /\ pc' = "poll_loop"
    /\ UNCHANGED <<exc, now, bucket, calls, collector_vars, submitter_vars, queries, sleeps,
                   retriever_vars, upload_vars>>

\* A faulty variant of jobIdentifier: the job id is passed in place of the ARN.
jobIdentifierIsJobId == job_id

\* Line 432: the jobIdentifier argument of get_model_invocation_job.
jobIdentifier == jobArn

\* A faulty variant of AfterQuery: no break, 'Completed' falls through to
\* the sleep.
AfterQuerySleepsOnCompleted(st) ==
    CASE st = "Failed" -> "poll_loop"
      [] OTHER -> "poll_sleep"

\* A faulty variant of AfterQuery: 'Failed' goes to the sleep like a
\* non-terminal status.
AfterQuerySleepsOnFailed(st) ==
    CASE st = "Completed" -> "retrieve"
      [] OTHER -> "poll_sleep"

\* A faulty variant of AfterQuery: a failed job is submitted again.
AfterQueryResubmitsOnFailed(st) ==
    CASE st = "Failed" -> "create"
      [] st = "Completed" -> "retrieve"
      [] OTHER -> "poll_sleep"

\* Lines 434-441: where control goes after a status: back to the loop's
\* test on 'Failed', out of the loop on 'Completed' (break), to the sleep
\* otherwise.
AfterQuery(st) ==
    CASE st = "Failed" -> "poll_loop"
      [] st = "Completed" -> "retrieve"
      [] OTHER -> "poll_sleep"

\* Line 441: the argument of time.sleep.
SleepSeconds == 300

\* Lines 431-441, one iteration up to the sleep: query, then print on
\* 'Failed', break on 'Completed', go to sleep otherwise.
PollQuery ==
    /\ pc = "poll_loop"
    /\ WhileCondition(status)
    /\ queries < MaxPolls
    /\ queries' = queries + 1
    /\ \/ \E st \in Statuses :
            /\ status' = st
            /\ pc' = AfterQuery(st)
            /\ exc' = exc
            /\ calls' = Append(calls, Call("get_model_invocation_job", jobIdentifier, TRUE))
       \/ /\ pc' = "raised"
          /\ exc' = "get_model_invocation_job"
          /\ status' = status
          /\ calls' = Append(calls, Call("get_model_invocation_job", jobIdentifier, FALSE))
    /\ UNCHANGED <<bound, now, bucket, collector_vars, submitter_vars, sleeps, jobArn,
                   job_id, retriever_vars, upload_vars>>

\* Line 441: time.sleep(300), then back to the loop's test.
PollSleep ==
    /\ pc = "poll_sleep"
    /\ sleeps' = sleeps + 1
    /\ calls' = Append(calls, Call("time.sleep", IntToStr(SleepSeconds), TRUE))
    /\ pc' = "poll_loop"
    /\ UNCHANGED <<exc, bound, now, bucket, collector_vars, submitter_vars, status,
                   queries, jobArn, job_id, retriever_vars, upload_vars>>

\* Line 431 false: the loop ends and the cell with it.
PollExit ==
    /\ pc = "poll_loop"
    /\ ~WhileCondition(status)
    /\ pc' = "retrieve"
    /\ UNCHANGED <<exc, bound, now, bucket, calls, collector_vars, submitter_vars, poller_vars,
                   retriever_vars, upload_vars>>

(* ------------------------------ job service --------------------------- *)
\* The request records the service finds at the job's input location: the
\* lines of the uploaded object, none when no object was stored there.
ServiceInput ==
    LET stored == {o \in s3_objects : o.key = jobs[1].input.key}
    IN  IF stored = {} THEN <<>>
        ELSE LET lines == splitlines((CHOOSE o \in stored : TRUE).body)
             IN  [i \in 1..Len(lines) |-> json_loads(lines[i]).val]

\* What one line of the output file can be: the request mirrored with a
\* modelOutput field ("ok"), the request with an error in place of
\* modelOutput ("error"), or text that is not JSON ("garbage").
LineKinds == {"ok", "error", "garbage"}

ServiceLine(kind, rec) ==
    [kind |-> kind,
     recordId |-> rec.recordId,
     modelInput |-> rec.modelInput,
     modelOutput |-> [text |-> <<"summary">>,
                      input_tokens |-> Len(rec.modelInput.messages[1].content[1].text),
                      output_tokens |-> 1,
                      model |-> "claude-3-haiku",
                      stop_reason |-> "end_turn"]]

\* manifest.json.out: the counts of the job's records.
ServiceManifest(kinds) ==
    [totalRecordCount |-> Len(kinds),
     successRecordCount |-> Cardinality({i \in 1..Len(kinds) : kinds[i] = "ok"}),
     errorRecordCount |-> Cardinality({i \in 1..Len(kinds) : kinds[i] # "ok"})]

(* ------------------------------- retriever ---------------------------- *)
\* Line 469 and 476: the key of the output file.
object_key == <<model_input_summary_prefix, "/", output_prefix, "/">> \o job_id \o <<"/">>
              \o filename \o <<".out">>

\* Lines 482-498 succeed on a line: json.loads parses it and every field
\* read is there.
Usable(line) == line.kind = "ok"

\* A faulty variant of OutputEntry: the counters and the parameters are
\* taken from the wrong fields.
OutputEntryMixesFields(data) ==
    [request_id |-> data.recordId,
     output_text |-> data.modelOutput.text,
     observability |-> [input_tokens |-> data.modelOutput.output_tokens,
                        output_tokens |-> data.modelOutput.input_tokens,
                        model |-> data.modelOutput.model,
                        stop_reason |-> data.modelOutput.stop_reason,
                        request_id |-> data.recordId,
                        max_tokens |-> data.modelInput.top_k,
                        temperature |-> data.modelInput.temperature,
                        top_p |-> data.modelInput.top_p,
                        top_k |-> data.modelInput.max_tokens]]

\* A faulty variant of OutputEntry: the identifier inside 'observability' is
\* made anew instead of copied.
OutputEntryRenamesInnerId(data) ==
    [request_id |-> data.recordId,
     output_text |-> data.modelOutput.text,
     observability |-> [input_tokens |-> data.modelOutput.input_tokens,
                        output_tokens |-> data.modelOutput.output_tokens,
                        model |-> data.modelOutput.model,
                        stop_reason |-> data.modelOutput.stop_reason,
                        request_id |-> <<"r">> \o data.recordId,
                        max_tokens |-> data.modelInput.max_tokens,
                        temperature |-> data.modelInput.temperature,
                        top_p |-> data.modelInput.top_p,
                        top_k |-> data.modelInput.top_k]]

\* Lines 484-498.
OutputEntry(data) ==
    [request_id |-> data.recordId,
     output_text |-> data.modelOutput.text,
     observability |-> [input_tokens |-> data.modelOutput.input_tokens,
                        output_tokens |-> data.modelOutput.output_tokens,
                        model |-> data.modelOutput.model,
                        stop_reason |-> data.modelOutput.stop_reason,
                        request_id |-> data.recordId,
                        max_tokens |-> data.modelInput.max_tokens,
                        temperature |-> data.modelInput.temperature,
                        top_p |-> data.modelInput.top_p,
                        top_k |-> data.modelInput.top_k]]

\* A faulty variant of ParseLines: every entry is put in front of the list,
\* so that the entries come out in the reverse of the file's order.
RECURSIVE ParseLinesReversed(_)
ParseLinesReversed(lines) ==
    IF lines = <<>> THEN [data |-> <<>>, failed |-> FALSE]
    ELSE IF ~Usable(Head(lines)) THEN [data |-> <<>>, failed |-> TRUE]
    ELSE LET rest == ParseLinesReversed(Tail(lines))
         IN  [data |-> rest.data \o <<OutputEntry(Head(lines))>>, failed |-> rest.failed]

\* A faulty variant of ParseLines: an error empties the list.
RECURSIVE ParseLinesDropsOnError(_)
ParseLinesDropsOnError(lines) ==
    IF lines = <<>> THEN [data |-> <<>>, failed |-> FALSE]
    ELSE IF ~Usable(Head(lines)) THEN [data |-> <<>>, failed |-> TRUE]
    ELSE LET rest == ParseLinesDropsOnError(Tail(lines))
         IN  [data |-> IF rest.failed THEN <<>> ELSE <<OutputEntry(Head(lines))>> \o rest.data,
              failed |-> rest.failed]

\* Lines 481-499: the entries appended before the loop ends, and whether it
\* ended by an exception.  The first line that cannot be used raises, which
\* leaves the loop.
RECURSIVE ParseLines(_)
ParseLines(lines) ==
    IF lines = <<>> THEN [data |-> <<>>, failed |-> FALSE]
    ELSE IF ~Usable(Head(lines)) THEN [data |-> <<>>, failed |-> TRUE]
    ELSE LET rest == ParseLines(Tail(lines))
         IN  [data |-> <<OutputEntry(Head(lines))>> \o rest.data, failed |-> rest.failed]

NoEntry == [request_id |-> <<>>]

\* A faulty variant of SamplePrint: the sample is printed whether or not
\* output_entry was bound.
SamplePrintAlwaysPrints(names) == "done"

\* Lines 504-505, outside the try block: print(output_entry) prints when
\* the name is bound and raises NameError when it is not.
SamplePrint(names) == IF "output_entry" \in names THEN "done" ELSE "raised"

\* Lines 467-505, the whole cell.  get_object answers with the stored lines
\* or raises; the try block parses; the except clause prints the error; the
\* last statement prints output_entry, a NameError when no line was parsed.
Retrieve ==
    /\ pc = "retrieve"
    /\ LET input == ServiceInput
           stored == jobs[1].input.key \in {o.key : o \in s3_objects}
       IN  \E present \in BOOLEAN, k \in 0..Len(input), kinds \in [1..Len(input) -> LineKinds] :
             /\ present => stored
             /\ manifest' = ServiceManifest(kinds)
             /\ out_object' = [key |-> object_key, present |-> present,
                               lines |-> [i \in 1..k |-> ServiceLine(kinds[i], input[i])]]
    /\ LET parsed == ParseLines(out_object'.lines)
           failed == ~out_object'.present \/ parsed.failed
           data == IF out_object'.present THEN parsed.data ELSE <<>>
       IN  /\ output_data' = data
           /\ retrieval' = IF failed THEN "error" ELSE "success"
           /\ output_entry' = IF data = <<>> THEN output_entry ELSE data[Len(data)]
           /\ bound' = bound \cup (IF data = <<>> THEN {} ELSE {"output_entry"})
           /\ pc' = SamplePrint(bound')
           /\ exc' = IF pc' = "raised" THEN "NameError" ELSE exc
    /\ calls' = Append(calls, Call("get_object", object_key, out_object'.present))
    /\ UNCHANGED <<now, bucket, collector_vars, submitter_vars, poller_vars, upload_vars>>

(* ----------------------------- specification -------------------------- *)
Buckets == {[i \in 1..n |-> [content |-> SourceText(i)]] : n \in 0..MaxObjects}

Init ==
    /\ pc = "prepare"
    /\ exc = "none"
    /\ bound = {}
    /\ now = ClockStart
    /\ bucket \in Buckets
    /\ contents = <<>>
    /\ model_inputs = <<>>
    /\ model_input_jsonl = <<>>
    /\ filename = <<>>
    /\ local_file = <<>>
    /\ s3_objects = {}
    /\ upload_result = "unset"
    /\ jobs = <<>>
    /\ status = ""
    /\ queries = 0
    /\ sleeps = 0
    /\ jobArn = <<>>
    /\ job_id = <<>>
    /\ calls = <<>>
    /\ manifest = ServiceManifest(<<>>)
    /\ out_object = [key |-> <<>>, present |-> FALSE, lines |-> <<>>]
    /\ output_data = <<>>
    /\ output_entry = NoEntry
    /\ retrieval = "none"
    /\ fs = [files |-> {}, dirs |-> {}]
    /\ path = <<>>
    /\ bucket_subfolder = None
    /\ todo = {}
    /\ uploads = <<>>
    /\ returned = "unset"

Next ==
    \/ ListObjects
    \/ ReadObject
    \/ ReturnInputs
    \/ WriteFile
    \/ UploadFile
    \/ CreateJob
    \/ PollInit
    \/ PollQuery
    \/ PollSleep
    \/ PollExit
    \/ Retrieve

Spec == Init /\ [][Next]_vars

\* The polling cell is one sequential loop on one thread: a step of the loop
\* that can run does run.
SpecFair == Spec /\ WF_vars(PollQuery) /\ WF_vars(PollSleep) /\ WF_vars(PollExit)

(* ------------------- specification of the serialization --------------- *)
\* Batches of Task Request Records given to write_jsonl: record i holds the
\* text of the i-th key, but for one record, which holds any text of Texts
\* and any record id of the clock's range.
JsonlBatches ==
    {<<>>} \cup
    UNION {{[i \in 1..n |-> IF i = j THEN model_input(t, txt)
                                     ELSE model_input(ClockStart, SourceText(i))] :
              j \in 1..n, t \in ClockStart..ClockEnd, txt \in Texts} : n \in 1..MaxObjects}

InitJsonl ==
    /\ pc = "jsonl_write"
    /\ exc = "none"
    /\ bound = {"model_input_jsonl"}
    /\ now = ClockStart
    /\ bucket = <<>>
    /\ contents = <<>>
    /\ model_inputs = <<>>
    /\ model_input_jsonl \in JsonlBatches
    /\ filename = batch_filename(ClockStart)
    /\ local_file = <<>>
    /\ s3_objects = {}
    /\ upload_result = "unset"
    /\ jobs = <<>>
    /\ status = ""
    /\ queries = 0
    /\ sleeps = 0
    /\ jobArn = <<>>
    /\ job_id = <<>>
    /\ calls = <<>>
    /\ manifest = ServiceManifest(<<>>)
    /\ out_object = [key |-> <<>>, present |-> FALSE, lines |-> <<>>]
    /\ output_data = <<>>
    /\ output_entry = NoEntry
    /\ retrieval = "none"
    /\ fs = [files |-> {}, dirs |-> {}]
    /\ path = <<>>
    /\ bucket_subfolder = None
    /\ todo = {}
    /\ uploads = <<>>
    /\ returned = "unset"

\* Line 322 alone: write_jsonl(model_input_jsonl, filename).
JsonlWrite ==
    /\ pc = "jsonl_write"
    /\ local_file' = write_jsonl(model_input_jsonl)
    /\ pc' = "jsonl_written"
    /\ UNCHANGED <<calls, exc, bound, now, bucket, collector_vars, filename, s3_objects,
                   upload_result, jobs, poller_vars, retriever_vars, upload_vars>>

NextJsonl == JsonlWrite

SpecJsonl == InitJsonl /\ [][NextJsonl]_vars

(* --------------------- specification of upload_to_s3 ------------------ *)
\* The parts of a sequence of parts joined by '/'.
RECURSIVE Join(_)
Join(parts) ==
    IF parts = <<>> THEN <<>>
    ELSE IF Len(parts) = 1 THEN parts[1]
    ELSE parts[1] \o <<"/">> \o Join(Tail(parts))

IsNamePart(part) == part # <<>> /\ part # <<".">>

\* The names a path goes through: what lies between its '/', without the
\* empty names and the '.' names.
Components(p) == SelectSeq(split(p, "/"), IsNamePart)

\* os.path.normpath for paths without '..'.
normpath(p) == Join(Components(p))

\* os.path.join(root, file)
join(root, file) == root \o <<"/">> \o file

\* os.path.relpath(file_path, start) for a file below start.
relpath(file_path, start) ==
    LET c == Components(file_path)
    IN  Join(SubSeq(c, Len(Components(start)) + 1, Len(c)))

FileName(i) == <<"f">> \o IntToStr(i)

\* The local trees upload_to_s3 is run on: the file f1, the directory d with
\* top files and, when it has the subdirectory s, sub files in d/s.
FileSystem(top, hasSub, sub) ==
    [files |-> {FileName(1)}
               \cup {<<"d", "/">> \o FileName(i) : i \in 1..top}
               \cup {<<"d", "/", "s", "/">> \o FileName(i) : i \in 1..sub},
     dirs |-> {<<"d">>} \cup (IF hasSub THEN {<<"d", "/", "s">>} ELSE {})]

FileSystems ==
    {FileSystem(top, hasSub, sub) :
        top \in 0..MaxDirFiles, hasSub \in BOOLEAN, sub \in 0..MaxDirFiles} \
    {FileSystem(top, FALSE, sub) : top \in 0..MaxDirFiles, sub \in 1..MaxDirFiles}

\* The path arguments tried: files, directories, and a name that is neither.
Paths == {FileName(1), <<".", "/">> \o FileName(1), <<"d", "/">> \o FileName(1),
          <<"d">>, <<".", "/", "d">>, <<"d", "/", "s">>, <<"x">>}

isfile(p) == normpath(p) \in fs.files
isdir(p) == normpath(p) \in fs.dirs

\* The files os.walk(p) comes to: every file below p, at any depth.
FilesBelow(p) ==
    LET d == normpath(p)
    IN  {f \in fs.files : /\ Len(f) > Len(d) + 1
                          /\ SubSeq(f, 1, Len(d)) = d
                          /\ f[Len(d) + 1] = "/"}

\* os.walk goes top-down: the files of a directory come before the files of
\* its subdirectories; the order inside one directory is the listing's.
WalkNext(t) == {f \in t : \A g \in t : Len(Components(f)) <= Len(Components(g))}

\* One s3.upload_file(file_path, bucket_name, object_name) call.
Upload(file_path, name, ok) == [file_path |-> file_path, object_name |-> name, ok |-> ok]

\* A faulty variant of AfterWalkUpload: a failed upload ends the walk.
AfterWalkUploadStopsOnError(ok, rest) == IF ok THEN rest ELSE {}

\* Lines 221-225: the try/except is inside the loop, which goes on to the
\* remaining files whether the upload returned or raised.
AfterWalkUpload(ok, rest) == rest

InitUpload ==
    /\ pc = "upload_call"
    /\ exc = "none"
    /\ bound = {}
    /\ now = ClockStart
    /\ bucket = <<>>
    /\ contents = <<>>
    /\ model_inputs = <<>>
    /\ model_input_jsonl = <<>>
    /\ filename = <<>>
    /\ local_file = <<>>
    /\ s3_objects = {}
    /\ upload_result = "unset"
    /\ jobs = <<>>
    /\ status = ""
    /\ queries = 0
    /\ sleeps = 0
    /\ jobArn = <<>>
    /\ job_id = <<>>
    /\ calls = <<>>
    /\ manifest = ServiceManifest(<<>>)
    /\ out_object = [key |-> <<>>, present |-> FALSE, lines |-> <<>>]
    /\ output_data = <<>>
    /\ output_entry = NoEntry
    /\ retrieval = "none"
    /\ fs \in FileSystems
    /\ path \in Paths
    /\ bucket_subfolder \in {None, model_input_summary_prefix}
    /\ todo = {}
    /\ uploads = <<>>
    /\ returned = "unset"

run_vars == <<exc, bound, now, bucket, collector_vars, submitter_vars, poller_vars, calls,
              retriever_vars>>

\* Lines 204-213: the path is a file: one upload, True or False returned.
UploadIsFile ==
    /\ pc = "upload_call"
    /\ isfile(path)
    /\ \E ok \in BOOLEAN :
         /\ uploads' = <<Upload(path, object_name(bucket_subfolder, basename(path)), ok)>>
         /\ returned' = FileBranchResult(ok)
    /\ pc' = "upload_returned"
    /\ UNCHANGED <<run_vars, fs, path, bucket_subfolder, todo>>

\* Lines 214-216: the path is a directory: the walk starts.
UploadIsDir ==
    /\ pc = "upload_call"
    /\ ~isfile(path)
    /\ isdir(path)
    /\ todo' = FilesBelow(path)
    /\ pc' = "upload_walk"
    /\ UNCHANGED <<run_vars, fs, path, bucket_subfolder, uploads, returned>>

\* Lines 217-225, one file of the walk.
UploadWalk ==
    /\ pc = "upload_walk"
    /\ \E f \in WalkNext(todo), ok \in BOOLEAN :
         LET file_path == join(path, relpath(f, path))
             relative_path == relpath(file_path, path)
         IN  /\ uploads' = Append(uploads, Upload(file_path,
                                                  object_name(bucket_subfolder, relative_path),
                                                  ok))
             /\ todo' = AfterWalkUpload(ok, todo \ {f})
    /\ UNCHANGED <<pc, run_vars, fs, path, bucket_subfolder, returned>>

\* Line 226: the walk is over, None is returned.
UploadWalkReturn ==
    /\ pc = "upload_walk"
    /\ todo = {}
    /\ returned' = "None"
    /\ pc' = "upload_returned"
    /\ UNCHANGED <<run_vars, fs, path, bucket_subfolder, todo, uploads>>

\* Lines 227-229: neither a file nor a directory.
UploadIsNeither ==
    /\ pc = "upload_call"
    /\ ~isfile(path)
    /\ ~isdir(path)
    /\ returned' = "None"
    /\ pc' = "upload_returned"
    /\ UNCHANGED <<run_vars, fs, path, bucket_subfolder, todo, uploads>>

NextUpload ==
    \/ UploadIsFile
    \/ UploadIsDir
    \/ UploadWalk
    \/ UploadWalkReturn
    \/ UploadIsNeither

SpecUpload == InitUpload /\ [][NextUpload]_vars

(* ================================ claims ============================== *)
PollerEnded == pc \in {"retrieve", "done"} \/ retrieval # "none"

\* C1: whenever the status polling loop has ended without an exception, the
\* last status it obtained is 'Completed' or 'Failed'.
C1_PollerEndsOnTerminalStatus ==
    PollerEnded => status \in {"Completed", "Failed"}

\* C1 witness: the loop has ended on 'Completed' after an earlier query that
\* answered a non-terminal status.
C1_Witness ==
    pc = "retrieve" /\ status = "Completed" /\ queries >= 2 /\ sleeps >= 1

\* C2: once the service has answered 'Failed', the run stops at the poller
\* with a fatal error: the retrieval is not carried out and output_data
\* holds no record.
C2_FailedJobStopsTheRun ==
    status = "Failed" =>
        /\ pc \in {"poll_loop", "raised"}
        /\ retrieval = "none"
        /\ output_data = <<>>

\* C3: no two records of the batch built by prepare_model_inputs carry the
\* same recordId.
C3_RecordIdsUnique ==
    \A i, j \in 1..Len(model_inputs) :
        i # j => model_inputs[i].recordId # model_inputs[j].recordId

\* C4: after the retrieval of a completed job, every output request_id is
\* the recordId of exactly one input record, and no input record is matched
\* by two output records.
C4_OutputIdsMatchOneInput ==
    (status = "Completed" /\ retrieval = "success") =>
        /\ \A k \in 1..Len(output_data) :
             Cardinality({i \in 1..Len(model_input_jsonl) :
                            model_input_jsonl[i].recordId = output_data[k].request_id}) = 1
        /\ \A i \in 1..Len(model_input_jsonl) :
             Cardinality({k \in 1..Len(output_data) :
                            output_data[k].request_id = model_input_jsonl[i].recordId}) <= 1

\* C5: a retrieval cell that ends normally as a success has produced exactly
\* as many Output Records as the manifest reports successful records.
C5_SuccessCountIsManifestCount ==
    (retrieval = "success" /\ pc = "done") =>
        Len(output_data) = manifest.successRecordCount

FirstUnusable(lines) ==
    CHOOSE i \in 1..Len(lines) : ~Usable(lines[i]) /\ \A j \in 1..(i - 1) : Usable(lines[j])

HasUnusable(lines) == \E i \in 1..Len(lines) : ~Usable(lines[i])

\* C6: when a line of the output file is malformed the whole retrieval
\* fails: the error stops the run as a fatal error, no later line is parsed
\* and the retrieval does not end as a success.
C6_MalformedLineIsFatal ==
    (retrieval # "none" /\ out_object.present /\ HasUnusable(out_object.lines)) =>
        /\ pc = "raised"
        /\ retrieval = "error"
        /\ Len(output_data) < FirstUnusable(out_object.lines)

\* C7: when a source object cannot be read, prepare_model_inputs raises at
\* that object and returns no batch: nothing is bound to model_input_jsonl,
\* no request file is written or uploaded and no job is created.
C7_UnreadableObjectNoBatch ==
    exc = "get_object" =>
        /\ pc = "raised"
        /\ "model_input_jsonl" \notin bound
        /\ model_input_jsonl = <<>>
        /\ filename = <<>>
        /\ local_file = <<>>
        /\ s3_objects = {}
        /\ jobs = <<>>

\* C7 witness: the read failed after at least one record had been appended
\* to the function's list.
C7_Witness ==
    exc = "get_object" /\ pc = "raised" /\ Len(model_inputs) >= 1

\* C8: the batch prepare_model_inputs returns holds exactly one record for
\* every object stored under the prefix, record i built from object i.
C8_OneRecordPerObject ==
    "model_input_jsonl" \in bound =>
        /\ Len(model_input_jsonl) = Len(bucket)
        /\ \A i \in 1..Len(model_input_jsonl) :
             model_input_jsonl[i].modelInput = request_body(bucket[i].content)

\* C9: a job is created only if the upload of the request file succeeded.
C9_JobOnlyAfterUpload ==
    jobs # <<>> =>
        /\ upload_result = "True"
        /\ jobs[1].input.key \in {o.key : o \in s3_objects}

\* C10: the file written by write_jsonl holds one line per record, in the
\* order of the records, and json.loads of line i gives a record with the
\* recordId and the modelInput of record i.
C10_JsonlRoundTrip ==
    pc = "jsonl_written" =>
        LET lines == splitlines(local_file)
        IN  /\ Len(lines) = Len(model_input_jsonl)
            /\ \A i \in 1..Len(lines) :
                 /\ json_loads(lines[i]).ok
                 /\ json_loads(lines[i]).val.recordId = model_input_jsonl[i].recordId
                 /\ json_loads(lines[i]).val.modelInput = model_input_jsonl[i].modelInput

\* C10 witness: a batch of two or more records has been written, one of
\* whose source texts holds a newline, a quote or a backslash.
C10_Witness ==
    /\ pc = "jsonl_written"
    /\ Len(model_input_jsonl) >= 2
    /\ \E i \in 1..Len(model_input_jsonl) :
         LET text == model_input_jsonl[i].modelInput.messages[1].content[1].text
         IN  \E p \in 3..Len(text) : text[p] \in {LF, QUOTE, BSLASH} /\ p = Len(text)

Terminal == {"Completed", "Failed"}

InPoller == pc \in {"poll_loop", "poll_sleep"}

\* C11: once the poller has obtained 'Completed' or 'Failed' the loop ends;
\* the step that obtains 'Completed' leaves the loop at once, and after
\* 'Completed' no further status query and no further sleep is made.
C11_TerminalStatusEndsLoop ==
    /\ (status \in Terminal) ~> PollerEnded
    /\ [][(status # "Completed" /\ status' = "Completed") => pc' = "retrieve"]_vars
    /\ [][status = "Completed" => (queries' = queries /\ sleeps' = sleeps)]_vars

\* C11 witness: the loop has ended on 'Completed' obtained by the last
\* query the model follows, after a sleep.
C11_Witness ==
    PollerEnded /\ status = "Completed" /\ queries = MaxPolls /\ sleeps = MaxPolls - 1

\* C12: there is no ceiling on the queries: while no terminal status is
\* obtained and no query raises, the poller does not leave the loop and goes
\* on to query, up to the last query the model follows.
C12_NoCeilingOnQueries ==
    /\ (InPoller /\ status \notin Terminal)
         ~> (queries = MaxPolls \/ status \in Terminal \/ exc = "get_model_invocation_job")
    /\ [][(InPoller /\ status' \notin Terminal) => (InPoller' \/ pc' = "raised")]_vars

\* C12 witness: every query the model follows was answered with a
\* non-terminal status and the poller is still in its loop.
C12_Witness ==
    pc = "poll_loop" /\ queries = MaxPolls /\ sleeps = MaxPolls /\ status \notin Terminal


\* The component a call belongs to: 1 Collector, 2 Submitter, 3 Poller,
\* 4 Retriever.  get_object is the Collector's when it reads a source
\* object and the Retriever's when it reads the output file.
StageOfCall(c) ==
    CASE c.api = "list_objects_v2" -> 1
      [] c.api = "get_object" -> IF c.arg[1] = raw_data_prefix THEN 1 ELSE 4
      [] c.api \in {"write_jsonl", "upload_file", "create_model_invocation_job"} -> 2
      [] c.api \in {"get_model_invocation_job", "time.sleep"} -> 3

\* The component a position of the script belongs to; 0 where the run has
\* been ended by an exception.
StageOfPc(p) ==
    CASE p \in {"prepare", "prepare_loop"} -> 1
      [] p \in {"write", "upload", "create"} -> 2
      [] p \in {"poll_init", "poll_loop", "poll_sleep"} -> 3
      [] p \in {"retrieve", "done"} -> 4
      [] OTHER -> 0

SourceReads == {i \in 1..Len(calls) : calls[i].api = "get_object" /\ StageOfCall(calls[i]) = 1}
CallsOf(api) == {i \in 1..Len(calls) : calls[i].api = api}

\* C13: control flows one way, Collector, Submitter, Poller, Retriever: the
\* calls of a run are in the order of the stages (every source read before
\* the write of the JSONL file, the creation call before the first status
\* query, the fetch of the output file after the last status query), and no
\* step takes the script back to an earlier stage.
C13_ControlFlowsOneWay ==
    /\ [](\A i, j \in 1..Len(calls) : i < j => StageOfCall(calls[i]) <= StageOfCall(calls[j]))
    /\ [](\A r \in SourceReads, w \in CallsOf("write_jsonl") : r < w)
    /\ [](\A c \in CallsOf("create_model_invocation_job"), q \in CallsOf("get_model_invocation_job") :
            c < q)
    /\ [](\A q \in CallsOf("get_model_invocation_job"), g \in 1..Len(calls) :
            StageOfCall(calls[g]) = 4 => q < g)
    /\ [][pc' # "raised" => StageOfPc(pc') >= StageOfPc(pc)]_vars

C13_Witness ==
    /\ pc = "done"
    /\ Cardinality(SourceReads) = PageSize
    /\ CallsOf("write_jsonl") # {}
    /\ Cardinality(CallsOf("get_model_invocation_job")) = MaxPolls
    /\ calls[Len(calls)].api = "get_object" /\ calls[Len(calls)].ok


\* C14: after a successful retrieval output_data has one entry for every
\* line of the output file, and entry i is the Output Record decoded from
\* line i.
C14_OneEntryPerLineInFileOrder ==
    retrieval = "success" =>
        /\ Len(output_data) = Len(out_object.lines)
        /\ \A i \in 1..Len(output_data) :
              /\ output_data[i].request_id = out_object.lines[i].recordId
              /\ output_data[i].output_text = out_object.lines[i].modelOutput.text
              /\ output_data[i].observability.input_tokens
                    = out_object.lines[i].modelOutput.input_tokens

C14_Witness ==
    /\ retrieval = "success"
    /\ Len(out_object.lines) = PageSize
    /\ Len(output_data) = PageSize
    /\ output_data[1].request_id # output_data[PageSize].request_id

\* The input records the collector built that bear the identifier id.
InputsWithId(id) == {i \in 1..Len(model_input_jsonl) : model_input_jsonl[i].recordId = id}

\* C15: every Output Record bears the max_tokens, temperature, top_p and
\* top_k the collector attached to the input record with the same
\* identifier, and the token-usage counters of its own output line.
C15_EntryBearsRequestParameters ==
    \A i \in 1..Len(output_data) :
        LET o == output_data[i].observability
        IN  /\ InputsWithId(output_data[i].request_id) # {}
            /\ \A m \in InputsWithId(output_data[i].request_id) :
                  LET b == model_input_jsonl[m].modelInput
                  IN  /\ o.max_tokens = b.max_tokens
                      /\ o.temperature = b.temperature
                      /\ o.top_p = b.top_p
                      /\ o.top_k = b.top_k
            /\ o.input_tokens = out_object.lines[i].modelOutput.input_tokens
            /\ o.output_tokens = out_object.lines[i].modelOutput.output_tokens

C15_Witness ==
    /\ Len(output_data) = PageSize
    /\ \A i \in 1..Len(output_data) :
          /\ Cardinality(InputsWithId(output_data[i].request_id)) = 1
          /\ output_data[i].observability.input_tokens
                # output_data[i].observability.output_tokens


\* C16: the Job Descriptor is produced once, by the one creation call, and
\* then only read: no step changes it once it exists, the poller changes
\* neither the job handle nor the locations, every status query passes the
\* jobArn the creation call returned, and the only calls the poller makes
\* are the status query and the sleep.
C16_JobDescriptorOnlyRead ==
    /\ [](Len(jobs) <= 1)
    /\ [](\A q \in CallsOf("get_model_invocation_job") :
            jobs # <<>> /\ calls[q].arg = jobs[1].jobArn)
    /\ [][jobs # <<>> => jobs' = jobs]_vars
    /\ [][InPoller => (jobArn' = jobArn /\ job_id' = job_id /\ filename' = filename
                        /\ s3_objects' = s3_objects)]_vars
    /\ [][InPoller => (calls' = calls
                        \/ calls'[Len(calls')].api \in {"get_model_invocation_job", "time.sleep"})]_vars

C16_Witness ==
    /\ PollerEnded
    /\ Cardinality(CallsOf("get_model_invocation_job")) = MaxPolls
    /\ \A q \in CallsOf("get_model_invocation_job") : calls[q].ok /\ calls[q].arg = ServiceJobArn
    /\ jobs = <<[jobArn |-> ServiceJobArn, input |-> inputDataConfig, output |-> outputDataConfig]>>

\* The calls whose failure is let out of the cell.
RaisingApis == {"list_objects_v2", "get_object", "create_model_invocation_job",
                "get_model_invocation_job"}

\* C17: nothing is retried: job creation and the upload of the request file
\* are each invoked at most once, and exactly once in a run that has
\* gone past them; at most one object is stored, one when the upload
\* succeeded; and a failed listing, source read, creation or status query is
\* the last call of the run, which ends with that call's exception.
C17_NoOperationRetried ==
    /\ Cardinality(CallsOf("create_model_invocation_job")) <= 1
    /\ Cardinality(CallsOf("upload_file")) <= 1
    /\ Cardinality(s3_objects) <= 1
    /\ StageOfPc(pc) >= 3 =>
          /\ Cardinality(CallsOf("create_model_invocation_job")) = 1
          /\ Cardinality(CallsOf("upload_file")) = 1
          /\ upload_result = "True" => Cardinality(s3_objects) = 1
    /\ \A i \in 1..Len(calls) :
          (~calls[i].ok /\ calls[i].api \in RaisingApis /\ StageOfCall(calls[i]) < 4) =>
              /\ i = Len(calls)
              /\ pc = "raised"
              /\ exc = calls[i].api

C17_Witness ==
    /\ pc = "raised"
    /\ exc = "get_model_invocation_job"
    /\ Cardinality(CallsOf("create_model_invocation_job")) = 1
    /\ Cardinality(CallsOf("upload_file")) = 1
    /\ Cardinality(CallsOf("get_model_invocation_job")) = MaxPolls
    /\ ~calls[Len(calls)].ok


\* The characters of an alphanumeric string of the model's alphabet.
Alphanumeric == Digits \cup {"n"}

\* The recordId fields of the lines of the request file.
WrittenRecordIds ==
    LET lines == splitlines(local_file)
    IN  [i \in 1..Len(lines) |-> json_loads(lines[i]).val.recordId]

\* C18: every recordId written to the input JSONL file is an 11-character
\* alphanumeric string.
C18_RecordIdHasElevenCharacters ==
    \A i \in 1..Len(WrittenRecordIds) :
        /\ Len(WrittenRecordIds[i]) = 11
        /\ \A k \in 1..Len(WrittenRecordIds[i]) : WrittenRecordIds[i][k] \in Alphanumeric

\* The get_object calls of the retriever.
OutputReads == {i \in 1..Len(calls) : calls[i].api = "get_object" /\ StageOfCall(calls[i]) = 4}

\* C19: the stages agree on the locations: the input key given to job
\* creation is the key under which upload_to_s3 stored the request file,
\* the input prefix, '/', the filename; and the key the retriever reads is
\* the output location given to job creation followed by the job id, '/',
\* the filename and '.out'.
C19_LocationsAgree ==
    /\ \A u \in CallsOf("upload_file") :
          /\ calls[u].arg = <<model_input_summary_prefix, "/">> \o filename
          /\ \A c \in CallsOf("create_model_invocation_job") : calls[c].arg = calls[u].arg
          /\ jobs # <<>> => jobs[1].input.key = calls[u].arg
    /\ \A o \in s3_objects : jobs # <<>> => o.key = jobs[1].input.key
    /\ \A g \in OutputReads :
          /\ calls[g].arg = jobs[1].output.key \o job_id \o <<"/">> \o filename \o <<".out">>
          /\ out_object.key = calls[g].arg
          /\ job_id = <<jobs[1].jobArn[Len(jobs[1].jobArn)]>>

C19_Witness ==
    /\ retrieval = "success"
    /\ out_object.present
    /\ out_object.lines # <<>>
    /\ OutputReads # {}
    /\ \E o \in s3_objects : o.key = jobs[1].input.key

\* The poller has ended: its loop was left, or a status query raised.
PollerOver == PollerEnded \/ exc = "get_model_invocation_job"

\* C20: the poller sleeps once between two consecutive status queries and
\* nowhere else: the first query follows no sleep, every later query
\* directly follows one sleep, every sleep is of 300 seconds and directly
\* follows a query answered with a non-terminal status, a non-terminal
\* answer leads to the sleep and the sleep to the next test of the loop, no
\* sleep follows 'Completed' or 'Failed', and a loop that ends after k
\* queries has slept k - 1 times.
C20_OneSleepBetweenQueries ==
    /\ [][queries' = queries + 1 =>
            \/ queries = 0 /\ sleeps = 0
            \/ calls[Len(calls)].api = "time.sleep" /\ sleeps = queries]_vars
    /\ [][sleeps' = sleeps + 1 =>
            /\ calls[Len(calls)].api = "get_model_invocation_job"
            /\ calls[Len(calls)].ok
            /\ status \notin Terminal
            /\ calls'[Len(calls')] = Call("time.sleep", <<"3", "0", "0">>, TRUE)]_vars
    /\ [][(queries' = queries + 1 /\ status' \notin Terminal /\ pc' # "raised")
            => pc' = "poll_sleep"]_vars
    /\ (pc = "poll_sleep") ~> (pc = "poll_loop" /\ sleeps = queries)
    /\ [][(status \in Terminal) => sleeps' = sleeps]_vars
    /\ []((PollerOver /\ queries > 0) => sleeps = queries - 1)

C20_Witness ==
    /\ PollerEnded
    /\ status = "Failed"
    /\ queries = MaxPolls
    /\ sleeps = MaxPolls - 1
    /\ Cardinality(CallsOf("time.sleep")) = MaxPolls - 1


\* The place of a status on the path Submitted, InProgress, then Completed
\* or Failed; 0 for the status the loop starts with, before any answer.
PathRank(st) ==
    CASE st = "" -> 0
      [] st = "Submitted" -> 1
      [] st = "InProgress" -> 2
      [] st \in Terminal -> 3
      [] OTHER -> 4

\* A status query was answered in this step.
Answered == queries' = queries + 1 /\ pc' # "raised"

\* C21 as stated: no status query follows an observed 'Completed' or
\* 'Failed', and the statuses observed follow the one path Submitted,
\* InProgress, then Completed or Failed: every answer is one of the four and
\* never one that comes earlier on the path than the answer before.
C21_ObservedStatusesFollowThePath ==
    /\ [][(status \in Terminal) => queries' = queries]_vars
    /\ [][Answered => (PathRank(status') <= 3 /\ PathRank(status) <= PathRank(status'))]_vars

\* C21 amended: no status query follows an observed 'Completed' or 'Failed',
\* every status observed before the last is a non-terminal one, and a loop
\* that ends normally ends on 'Completed' or 'Failed'; which non-terminal
\* statuses were answered before, and in which order, is not constrained.
C21_TerminalStatusIsLastObserved ==
    /\ [][(status \in Terminal) => (queries' = queries /\ status' = status)]_vars
    /\ [][Answered => status \notin Terminal]_vars
    /\ [](pc = "retrieve" => (status \in Terminal /\ queries > 0))

C21_Witness ==
    /\ pc = "retrieve"
    /\ status = "Failed"
    /\ queries = MaxPolls - 1


\* C22: a record's identifier is the same through the pipeline: a record
\* keeps the recordId the collector gave it, line i of the JSONL file as
\* written bears the recordId of record i, the file is not written again,
\* and, the service echoing recordId line by line,
\* the request_id of Output Record i, at top level and inside
\* 'observability', is that same value.
C22_IdentifierIsStable ==
    /\ [][\A i \in 1..Len(model_inputs) :
            /\ Len(model_inputs') >= i
            /\ model_inputs'[i].recordId = model_inputs[i].recordId]_vars
    /\ [](pc = "upload" =>
            /\ Len(WrittenRecordIds) = Len(model_inputs)
            /\ \A i \in 1..Len(model_inputs) : WrittenRecordIds[i] = model_inputs[i].recordId)
    /\ [][("filename" \in bound) => local_file' = local_file]_vars
    /\ [](\A i \in 1..Len(output_data) :
            /\ output_data[i].request_id = model_inputs[i].recordId
            /\ output_data[i].observability.request_id = model_inputs[i].recordId)

C22_Witness ==
    /\ pc = "done"
    /\ Len(model_inputs) = PageSize
    /\ Len(output_data) = PageSize
    /\ model_inputs[1].recordId # model_inputs[PageSize].recordId
    /\ output_data[PageSize].observability.request_id = WrittenRecordIds[PageSize]


\* The key a name is to be stored under: the name alone when no subfolder
\* was given, the subfolder, '/', the name otherwise.
KeyFor(name) == IF bucket_subfolder = None THEN name ELSE <<bucket_subfolder, "/">> \o name

LastName(p) == Components(p)[Len(Components(p))]

\* C23: on a path that is a file upload_to_s3 makes no upload before it
\* runs and exactly one by the time it has returned, of that path, to the
\* key basename(path) or subfolder/basename(path); it returns True exactly
\* when the upload succeeded and False when it raised, and no exception
\* leaves the function.
C23_FileBranchUploadsOnce ==
    isfile(path) =>
        /\ exc = "none"
        /\ pc = "upload_call" => (uploads = <<>> /\ returned = "unset")
        /\ pc = "upload_returned" =>
              /\ Len(uploads) = 1
              /\ uploads[1].file_path = path
              /\ uploads[1].object_name = KeyFor(LastName(path))
              /\ returned = "True" <=> uploads[1].ok
              /\ returned = "False" <=> ~uploads[1].ok

C23_Witness ==
    /\ pc = "upload_returned"
    /\ isfile(path)
    /\ Len(Components(path)) = 2
    /\ bucket_subfolder # None
    /\ returned = "False"

\* The part of the file f after the directory d and its '/'.
Below(f, d) == SubSeq(f, Len(d) + 2, Len(f))

\* C24: on a path that is a directory upload_to_s3 has, when it returns,
\* made exactly one upload for every file below the directory, at any
\* depth, each to the key made of the optional subfolder and the file's path
\* relative to the directory, whether or not other uploads failed, and it
\* returns None; on a path that is neither a file nor a directory it makes
\* no upload and returns None.  No exception leaves the function.
C24_DirectoryBranchUploadsEveryFile ==
    (~isfile(path) /\ pc = "upload_returned") =>
        /\ exc = "none"
        /\ returned = "None"
        /\ ~isdir(path) => uploads = <<>>
        /\ isdir(path) =>
              /\ Len(uploads) = Cardinality(FilesBelow(path))
              /\ \A f \in FilesBelow(path) :
                    \E k \in 1..Len(uploads) :
                        /\ normpath(uploads[k].file_path) = f
                        /\ uploads[k].object_name = KeyFor(Below(f, normpath(path)))

C24_Witness ==
    /\ pc = "upload_returned"
    /\ isdir(path)
    /\ bucket_subfolder # None
    /\ Len(uploads) = 2 * MaxDirFiles
    /\ ~uploads[1].ok
    /\ uploads[Len(uploads)].ok
    /\ returned = "None"


\* The statuses the service may answer that are none of the four of the
\* job state machine.
OtherStatuses == Statuses \ {"Submitted", "InProgress", "Completed", "Failed"}

\* C25: a status other than 'Completed' and 'Failed', also one outside the
\* four of the state machine, is non-terminal for the poller: the answer
\* takes the loop to its sleep, no step leaves the loop with such a status
\* as the last one observed, and the next query follows, so that with a job that stays in
\* such a status the queries go on as long as the model counts them.
C25_OtherStatusKeepsPolling ==
    /\ OtherStatuses # {}
    /\ [][(Answered /\ status' \in OtherStatuses) => pc' = "poll_sleep"]_vars
    /\ [][(InPoller /\ status' \in OtherStatuses) => (InPoller' \/ pc' = "raised")]_vars
    /\ \A k \in 1..(MaxPolls - 1) :
          (InPoller /\ status \in OtherStatuses /\ queries = k) ~> (queries = k + 1)

C25_Witness ==
    /\ pc = "poll_loop"
    /\ status = "Stopped"
    /\ queries = MaxPolls
    /\ sleeps = MaxPolls
    /\ exc = "none"

\* C26: when the retriever meets its first unusable line at line k, the
\* cell ends with an error and output_data holds the records of lines 1 to
\* k - 1, in file order, and nothing else: no record of line k or later.
C26_ErrorKeepsParsedPrefix ==
    (retrieval # "none" /\ out_object.present /\ HasUnusable(out_object.lines)) =>
        LET k == FirstUnusable(out_object.lines)
        IN  /\ retrieval = "error"
            /\ Len(output_data) = k - 1
            /\ \A i \in 1..(k - 1) :
                  /\ output_data[i].request_id = out_object.lines[i].recordId
                  /\ output_data[i].observability.input_tokens
                        = out_object.lines[i].modelOutput.input_tokens

C26_Witness ==
    /\ retrieval = "error"
    /\ out_object.present
    /\ HasUnusable(out_object.lines)
    /\ FirstUnusable(out_object.lines) = 2
    /\ Len(output_data) = 1
    /\ pc = "done"

\* C27: when the retrieval fails before any line was parsed (no output
\* file, or an unusable first line) output_data is empty and the sample
\* print fails on the unbound name output_entry; whenever the sample is
\* printed, it is the last record parsed in this run.
C27_NoRecordNoSample ==
    /\ (retrieval = "error" /\ output_data = <<>>) =>
          /\ \/ ~out_object.present
             \/ (out_object.lines # <<>> /\ ~Usable(out_object.lines[1]))
          /\ pc = "raised"
          /\ exc = "NameError"
          /\ "output_entry" \notin bound
          /\ output_entry = NoEntry
    /\ (retrieval # "none" /\ (~out_object.present \/ out_object.lines = <<>>
                                \/ ~Usable(out_object.lines[1]))) =>
          (output_data = <<>> /\ exc = "NameError")
    /\ pc = "done" =>
          (output_data # <<>> /\ output_entry = output_data[Len(output_data)])

C27_Witness ==
    /\ retrieval = "error"
    /\ out_object.present
    /\ Len(out_object.lines) = PageSize
    /\ ~Usable(out_object.lines[1])
    /\ Usable(out_object.lines[PageSize])
    /\ exc = "NameError"


\* The run has got past the step at position p of the script without an
\* exception of an earlier step.
Reached(p) == StageOfPc(pc) >= p \/ (pc = "raised" /\ exc \in {"get_model_invocation_job", "NameError"})

\* C28: with no object under the prefix the listing is the only call of
\* prepare_model_inputs: no object is read, no read can fail, the batch
\* returned is empty; the file written has no line, the object uploaded has
\* an empty body, and a run that has come to the poller has made its upload
\* call and created its job for that input.
C28_EmptyListingStillSubmits ==
    bucket = <<>> =>
        /\ SourceReads = {}
        /\ exc # "get_object"
        /\ model_inputs = <<>>
        /\ "model_input_jsonl" \in bound => model_input_jsonl = <<>>
        /\ "filename" \in bound =>
              (local_file = <<>> /\ splitlines(local_file) = <<>> /\ CallsOf("write_jsonl") # {})
        /\ \A o \in s3_objects : o.body = <<>>
        /\ Reached(3) =>
              /\ Cardinality(CallsOf("upload_file")) = 1
              /\ Len(jobs) = 1
              /\ jobs[1].input.key = <<model_input_summary_prefix, "/">> \o filename

C28_Witness ==
    /\ bucket = <<>>
    /\ pc = "poll_loop"
    /\ Len(jobs) = 1
    /\ \E o \in s3_objects : o.key = jobs[1].input.key /\ o.body = <<>>

\* The text of the request of a record.
TextOf(rec) == rec.modelInput.messages[1].content[1].text

\* C29: prepare_model_inputs reads every listed object once, in the order
\* of the listing, record i of the batch is built from the i-th listed
\* object, and line i of the JSONL file, when write_jsonl has written it,
\* is record i.
C29_ListingOrderKept ==
    LET listed == list_objects_v2(bucket)
    IN  /\ Cardinality(SourceReads) <= Len(listed)
        /\ \A r \in SourceReads : calls[r].arg = ObjectKey(listed[r - 1])
        /\ \A i \in 1..Len(model_inputs) :
              /\ i + 1 \in SourceReads /\ calls[i + 1].ok
              /\ TextOf(model_inputs[i]) = input_text(bucket[listed[i]].content)
        /\ "model_input_jsonl" \in bound =>
              /\ model_input_jsonl = model_inputs
              /\ Len(model_input_jsonl) = Len(listed)
              /\ Cardinality(SourceReads) = Len(listed)
        /\ pc = "upload" =>
              LET lines == splitlines(local_file)
              IN  /\ Len(lines) = Len(model_input_jsonl)
                  /\ \A i \in 1..Len(lines) :
                        /\ json_loads(lines[i]).val.recordId = model_input_jsonl[i].recordId
                        /\ TextOf(json_loads(lines[i]).val) = TextOf(model_input_jsonl[i])

C29_Witness ==
    /\ pc = "upload"
    /\ Len(model_input_jsonl) = PageSize
    /\ Cardinality(SourceReads) = PageSize
    /\ TextOf(model_input_jsonl[1]) # TextOf(model_input_jsonl[PageSize])
    /\ Len(splitlines(local_file)) = PageSize

====
